---- MODULE Spec2Model ----
(***************************************************************************)
(* URL dispatch over the routing table of                                  *)
(* backend/facility_management/urls.py.                                    *)
(*                                                                         *)
(* urlpatterns is a list of four path(route, include) entries.  A route    *)
(* without converters that is bound to an include matches a request path   *)
(* when the path starts with the route; the included handler group then    *)
(* resolves the rest of the path.  The resolver scans the list in order;   *)
(* when the included group finds nothing for the rest (Resolver404), the   *)
(* scan goes on with the next entry, and a finished scan without a match   *)
(* is the not-found outcome.                                               *)
(*                                                                         *)
(* A path is a sequence of characters: the request path as the resolver    *)
(* matches it against urlpatterns (after the leading "/" of the URL).      *)
(***************************************************************************)
EXTENDS Naturals, Sequences, FiniteSets

(* ---- bounds ---- *)
\* the longest tail, in tail segments, appended to a head of a request path
MaxTail == 2

\* the request workers that resolve paths concurrently
Workers == {"w1", "w2"}

(* ---- the characters of the routes ---- *)
slash == <<"/">>
admin == <<"a", "d", "m", "i", "n">>
api == <<"a", "p", "i">>
auth == <<"a", "u", "t", "h">>
facilities == <<"f", "a", "c", "i", "l", "i", "t", "i", "e", "s">>
permissions == <<"p", "e", "r", "m", "i", "s", "s", "i", "o", "n", "s">>

(* ---- the routing table, urls.py lines 7-12 ---- *)
urlpatterns_ApiCatchAll ==
    << [route |-> admin \o slash, group |-> "admin.site.urls"],
       [route |-> api \o slash, group |-> "accounts.urls"],
       [route |-> api \o slash \o facilities \o slash, group |-> "facilities.urls"],
       [route |-> api \o slash \o permissions \o slash, group |-> "permissions.urls"] >>

urlpatterns ==
    << [route |-> admin \o slash, group |-> "admin.site.urls"],
       [route |-> api \o slash \o auth \o slash, group |-> "accounts.urls"],
       [route |-> api \o slash \o facilities \o slash, group |-> "facilities.urls"],
       [route |-> api \o slash \o permissions \o slash, group |-> "permissions.urls"] >>

(* ---- matching one entry: path(route, include(...)) ---- *)
\* a bug: the route is searched anywhere in the path, not at its start
MatchAnywhere(route, p) ==
    \E k \in 1..(Len(p) + 1) :
        /\ k + Len(route) - 1 <= Len(p)
        /\ SubSeq(p, k, k + Len(route) - 1) = route

\* a bug: the trailing slash of the route is not required
MatchNoSlash(route, p) ==
    /\ Len(route) - 1 <= Len(p)
    /\ SubSeq(p, 1, Len(route) - 1) = SubSeq(route, 1, Len(route) - 1)

\* the route matches when the path starts with the whole route
Match(route, p) ==
    /\ Len(route) <= Len(p)
    /\ SubSeq(p, 1, Len(route)) = route

\* a bug: the cut is one character early, the slash stays on the rest
RemainderKeepSlash(route, p) == SubSeq(p, Len(route), Len(p))

\* the rest of the path, handed to the included handler group
Remainder(route, p) == SubSeq(p, Len(route) + 1, Len(p))

\* the outcome of a scan that found nothing
NotFound == [group |-> "Resolver404", rest |-> << >>]

\* scanning tbl in order: the first entry that matches, and the rest of the path
FirstMatch(tbl, p) ==
    LET M == {i \in 1..Len(tbl) : Match(tbl[i].route, p)}
    IN  IF M = {} THEN NotFound
        ELSE LET i == CHOOSE i \in M : \A j \in M : i <= j
             IN  [group |-> tbl[i].group, rest |-> Remainder(tbl[i].route, p)]

(* ---- the request paths ---- *)
TailSegs == { <<"x">>, slash }

RECURSIVE Tails(_)
Tails(n) ==
    IF n = 0 THEN { << >> }
    ELSE LET T == Tails(n - 1)
         IN  T \cup { t \o s : t \in T, s \in TailSegs }

Heads ==
    { << >>,
      admin,
      admin \o slash,
      <<"A">> \o SubSeq(admin, 2, Len(admin)) \o slash,
      api \o slash,
      api \o slash \o auth,
      api \o slash \o auth \o slash,
      api \o slash \o auth \o <<"x">> \o slash,
      api \o slash \o facilities \o slash,
      api \o slash \o permissions \o slash,
      api \o slash \o admin \o slash,
      slash \o admin \o slash }

Paths == { h \o t : h \in Heads, t \in Tails(MaxTail) }

VARIABLES routerTable, pc, req, idx, forwards

vars == <<routerTable, pc, req, idx, forwards>>

Init ==
    /\ routerTable = urlpatterns
    /\ pc = [w \in Workers |-> "idle"]
    /\ req = [w \in Workers |-> << >>]
    /\ idx = [w \in Workers |-> 1]
    /\ forwards = [w \in Workers |-> << >>]

\* a request arrives: the resolver starts at the first entry
Request(w, p) ==
    /\ pc[w] = "idle"
    /\ pc' = [pc EXCEPT ![w] = "resolving"]
    /\ req' = [req EXCEPT ![w] = p]
    /\ idx' = [idx EXCEPT ![w] = 1]
    /\ forwards' = [forwards EXCEPT ![w] = << >>]
    /\ UNCHANGED routerTable

\* a bug: a matching entry is moved to the front of the table
TryPatternPromote(w) ==
    /\ pc[w] = "resolving"
    /\ idx[w] <= Len(routerTable)
    /\ LET e == routerTable[idx[w]]
       IN  IF Match(e.route, req[w])
           THEN /\ forwards' = [forwards EXCEPT ![w] =
                        Append(@, [group |-> e.group, rest |-> Remainder(e.route, req[w])])]
                /\ pc' = [pc EXCEPT ![w] = "included"]
                /\ routerTable' = <<e>> \o SubSeq(routerTable, 1, idx[w] - 1)
                                     \o SubSeq(routerTable, idx[w] + 1, Len(routerTable))
                /\ UNCHANGED <<req, idx>>
           ELSE /\ idx' = [idx EXCEPT ![w] = @ + 1]
                /\ UNCHANGED <<routerTable, pc, req, forwards>>

\* one step of the scan: the entry at idx either matches, and the request goes
\* to its handler group with the rest of the path, or is passed over
TryPattern(w) ==
    /\ pc[w] = "resolving"
    /\ idx[w] <= Len(routerTable)
    /\ LET e == routerTable[idx[w]]
       IN  IF Match(e.route, req[w])
           THEN /\ forwards' = [forwards EXCEPT ![w] =
                        Append(@, [group |-> e.group, rest |-> Remainder(e.route, req[w])])]
                /\ pc' = [pc EXCEPT ![w] = "included"]
                /\ UNCHANGED <<routerTable, req, idx>>
           ELSE /\ idx' = [idx EXCEPT ![w] = @ + 1]
                /\ UNCHANGED <<routerTable, pc, req, forwards>>

\* the handler group resolves the rest of the path: the request is routed
IncludeResolves(w) ==
    /\ pc[w] = "included"
    /\ pc' = [pc EXCEPT ![w] = "matched"]
    /\ UNCHANGED <<routerTable, req, idx, forwards>>

\* the handler group has nothing for the rest of the path: the scan goes on
IncludeRaises404(w) ==
    /\ pc[w] = "included"
    /\ pc' = [pc EXCEPT ![w] = "resolving"]
    /\ idx' = [idx EXCEPT ![w] = @ + 1]
    /\ UNCHANGED <<routerTable, req, forwards>>

\* a bug: a finished scan falls back to the last entry as a catch-all
RaiseCatchAll(w) ==
    /\ pc[w] = "resolving"
    /\ idx[w] > Len(routerTable)
    /\ forwards' = [forwards EXCEPT ![w] =
            Append(@, [group |-> routerTable[Len(routerTable)].group, rest |-> req[w]])]
    /\ pc' = [pc EXCEPT ![w] = "matched"]
    /\ UNCHANGED <<routerTable, req, idx>>

\* the scan is finished and nothing resolved: the not-found outcome
RaiseResolver404(w) ==
    /\ pc[w] = "resolving"
    /\ idx[w] > Len(routerTable)
    /\ pc' = [pc EXCEPT ![w] = "notfound"]
    /\ UNCHANGED <<routerTable, req, idx, forwards>>

\* the response is sent; the worker is free for the next request
Respond(w) ==
    /\ pc[w] \in {"matched", "notfound"}
    /\ pc' = [pc EXCEPT ![w] = "idle"]
    /\ req' = [req EXCEPT ![w] = << >>]
    /\ idx' = [idx EXCEPT ![w] = 1]
    /\ forwards' = [forwards EXCEPT ![w] = << >>]
    /\ UNCHANGED routerTable

Next ==
    \E w \in Workers :
        \/ \E p \in Paths : Request(w, p)
        \/ TryPattern(w)
        \/ IncludeResolves(w)
        \/ IncludeRaises404(w)
        \/ RaiseResolver404(w)
        \/ Respond(w)

Spec == Init /\ [][Next]_vars

TypeOK ==
    /\ routerTable \in Seq([route : Seq(STRING), group : STRING])
    /\ pc \in [Workers -> {"idle", "resolving", "included", "matched", "notfound"}]
    /\ \A w \in Workers : req[w] \in Paths
    /\ \A w \in Workers : idx[w] \in 1..(Len(routerTable) + 1)

(* ---- the vocabulary of the claims ---- *)
\* the worker holds a request
Active(w) == pc[w] # "idle"

\* the dispatch of the worker's request is over
Done(w) == pc[w] \in {"matched", "notfound"}

\* path p begins with pre
BeginsWith(p, pre) ==
    /\ Len(pre) <= Len(p)
    /\ \A k \in 1..Len(pre) : p[k] = pre[k]

\* p begins with no route of the declared table
BeginsWithNone(p) ==
    \A i \in 1..Len(urlpatterns) : ~BeginsWith(p, urlpatterns[i].route)

\* what dispatch selected for the worker's request: the handler group the
\* request was forwarded to and the path it was given, or the not-found outcome
Selected(w) == IF forwards[w] = << >> THEN NotFound ELSE forwards[w][1]

\* the entry with the longest route among those p begins with
LongestMatch(tbl, p) ==
    LET M == {i \in 1..Len(tbl) : BeginsWith(p, tbl[i].route)}
    IN  IF M = {} THEN NotFound
        ELSE LET i == CHOOSE i \in M :
                          \A j \in M : Len(tbl[j].route) <= Len(tbl[i].route)
             IN  [group |-> tbl[i].group,
                  rest |-> SubSeq(p, Len(tbl[i].route) + 1, Len(p))]

\* the orders the entries of a table can be written in
Orders(tbl) ==
    {f \in [1..Len(tbl) -> 1..Len(tbl)] :
        \A a, b \in 1..Len(tbl) : f[a] = f[b] => a = b}

Reordered(tbl, f) == [k \in 1..Len(tbl) |-> tbl[f[k]]]

\* the declared table in each of its orders
Reorderings == {Reordered(urlpatterns, f) : f \in Orders(urlpatterns)}

\* C1: when the request path begins with a declared prefix, the request is
\* forwarded to the handler group bound to that prefix, and the path handed
\* over is the request path with exactly the prefix removed.
C1_ForwardedWithPrefixRemoved ==
    \A w \in Workers : \A i \in 1..Len(urlpatterns) :
        (Done(w) /\ BeginsWith(req[w], urlpatterns[i].route)) =>
            /\ Len(forwards[w]) = 1
            /\ forwards[w][1].group = urlpatterns[i].group
            /\ req[w] = urlpatterns[i].route \o forwards[w][1].rest

C1_Witness ==
    \E w \in Workers :
        /\ pc[w] = "matched"
        /\ BeginsWith(req[w], api \o slash \o facilities \o slash)
        /\ forwards[w] = << [group |-> "facilities.urls", rest |-> <<"x", "/">>] >>

\* C2: a request path that begins with none of the four prefixes is
\* forwarded to none of the handler groups.
C2_NoPrefixNoForward ==
    \A w \in Workers :
        (Active(w) /\ BeginsWithNone(req[w])) => forwards[w] = << >>

C2_Witness ==
    \E w \in Workers :
        /\ pc[w] = "notfound"
        /\ req[w] = api \o slash \o admin \o slash
        /\ forwards[w] = << >>

\* C3: no declared prefix is the start of another one, so at most one entry
\* matches a request path and a request reaches at most one handler group.
C3_NoDoubleMatch ==
    /\ \A i, j \in 1..Len(routerTable) :
           i # j => ~BeginsWith(routerTable[j].route, routerTable[i].route)
    /\ \A w \in Workers :
           Active(w) =>
               /\ Cardinality({i \in 1..Len(routerTable) :
                                 BeginsWith(req[w], routerTable[i].route)}) <= 1
               /\ Len(forwards[w]) <= 1

C3_Witness ==
    \E w \in Workers :
        /\ pc[w] = "notfound"
        /\ Len(forwards[w]) = 1
        /\ forwards[w][1].group = "admin.site.urls"

\* C4: a request path that matches no entry ends in the not-found outcome:
\* it is forwarded to no handler group, reaches no other outcome, and the
\* routing table stays as declared.
C4_UnmatchedIsNotFound ==
    \A w \in Workers :
        (Active(w) /\ BeginsWithNone(req[w])) =>
            /\ pc[w] \in {"resolving", "notfound"}
            /\ forwards[w] = << >>
            /\ routerTable = urlpatterns

C4_Witness ==
    \E w \in Workers :
        /\ pc[w] = "notfound"
        /\ req[w] = <<"A", "d", "m", "i", "n", "/", "x">>
        /\ forwards[w] = << >>
        /\ routerTable = urlpatterns

\* C5: dispatch selects the entry with the longest matching prefix and hands
\* over the rest of the path, and that is the entry and the rest the scan in
\* declaration order finds first.
C5_LongestIsFirst ==
    \A w \in Workers :
        Active(w) =>
            /\ LongestMatch(routerTable, req[w]) = FirstMatch(routerTable, req[w])
            /\ Done(w) => Selected(w) = LongestMatch(routerTable, req[w])

C5_Witness ==
    \E w \in Workers :
        /\ pc[w] = "matched"
        /\ req[w] = api \o slash \o auth \o slash \o <<"x">>
        /\ Selected(w) = [group |-> "accounts.urls", rest |-> <<"x">>]

\* C6: in whatever order the four entries are written, the scan selects the
\* same handler group, or the same not-found outcome, and the same rest.
C6_OrderIndependent ==
    \A w \in Workers :
        Done(w) =>
            LET declared == FirstMatch(urlpatterns, req[w])
            IN  /\ Selected(w) = declared
                /\ \A tbl \in Reorderings : FirstMatch(tbl, req[w]) = declared

C6_Witness ==
    \E w \in Workers :
        /\ pc[w] = "matched"
        /\ idx[w] = Len(routerTable)
        /\ Selected(w).group = "permissions.urls"

\* C7: dispatching never changes the routing table: it holds the four
\* declared bindings in the declared order, and what is selected for a path
\* depends on the path alone, whatever other requests came before or run
\* at the same time.
C7_TableUnchanged ==
    /\ routerTable = urlpatterns
    /\ \A w \in Workers :
           Done(w) => Selected(w) = FirstMatch(urlpatterns, req[w])
    /\ \A w, v \in Workers :
           (Done(w) /\ Done(v) /\ req[w] = req[v]) => Selected(w) = Selected(v)

C7_Witness ==
    \E w, v \in Workers :
        /\ w # v
        /\ pc[w] = "matched"
        /\ pc[v] = "notfound"
        /\ req[w] = req[v]
        /\ Selected(w).group = "facilities.urls"
        /\ routerTable = urlpatterns

\* C8: a prefix matches only as a whole, trailing slash included: a path
\* that has only the leading characters of a prefix (admin, api/authx/...,
\* api/) is forwarded nowhere, and a path equal to a prefix is handed over
\* with the empty rest.
C8_WholePrefixOnly ==
    \A w \in Workers :
        /\ \A i \in 1..Len(urlpatterns) :
               LET route == urlpatterns[i].route
               IN  /\ (Active(w) /\ ~BeginsWith(req[w], route)) =>
                          \A k \in 1..Len(forwards[w]) :
                              forwards[w][k].group # urlpatterns[i].group
                   /\ (Done(w) /\ req[w] = route) =>
                          forwards[w] = << [group |-> urlpatterns[i].group,
                                            rest |-> << >>] >>
        /\ ( /\ Active(w)
             /\ \/ req[w] = admin
                \/ req[w] = api \o slash
                \/ BeginsWith(req[w], api \o slash \o auth \o <<"x">> \o slash) )
           => forwards[w] = << >>

C8_Witness ==
    \E w, v \in Workers :
        /\ pc[w] = "notfound"
        /\ req[w] = admin
        /\ forwards[w] = << >>
        /\ pc[v] = "matched"
        /\ req[v] = api \o slash \o auth \o slash
        /\ forwards[v] = << [group |-> "accounts.urls", rest |-> << >>] >>
====
